---- MODULE Spec2Model ----
(***************************************************************************)
(* Model of lndmanage/lib/fee_setting.py: the FeeSetter object, its        *)
(* set_fees_demand and fee_rate_change methods and the three change        *)
(* factors.  Python numbers (int and float) are modelled as exact          *)
(* rationals <<n, d>> in lowest terms with d > 0.                          *)
(***************************************************************************)
EXTENDS Integers, Sequences, FiniteSets, TLC

VARIABLES
    node_channels,          \* ids of the channels the node reports (node.get_all_channels)
    node_policies,          \* channel_point -> policy held by the node
    channel_fee_policies,   \* self.channel_fee_policies, read once in __init__
    time_interval_days,     \* self.time_interval_days: <<>> while the attribute is unset, <<d>> once set
    pc,                     \* "idle", or "confirm" while set_fees_demand waits in yes_no_question()
    call,                   \* the running or the last finished invocation, with what it logged
    memo,                   \* arguments and result of an earlier direct fee_rate_change call
    probe                   \* the last two evaluations of the change factors

vars == <<node_channels, node_policies, channel_fee_policies,
          time_interval_days, pc, call, memo, probe>>

-----------------------------------------------------------------------------
(* Exact rational arithmetic.                                              *)

Abs(x) == IF x < 0 THEN -x ELSE x

RECURSIVE GCD(_, _)
GCD(a, b) == IF b = 0 THEN a ELSE GCD(b, a % b)

Norm(n, d) ==
    LET g == GCD(Abs(n), Abs(d))
        s == IF d < 0 THEN -1 ELSE 1
    IN  <<(s * n) \div g, (s * d) \div g>>

R(n) == <<n, 1>>
Frac(n, d) == Norm(n, d)

RAdd(a, b) == Norm(a[1] * b[2] + b[1] * a[2], a[2] * b[2])
RSub(a, b) == Norm(a[1] * b[2] - b[1] * a[2], a[2] * b[2])
RMul(a, b) ==
    LET g1 == GCD(Abs(a[1]), b[2])
        g2 == GCD(Abs(b[1]), a[2])
    IN  Norm((a[1] \div g1) * (b[1] \div g2), (a[2] \div g2) * (b[2] \div g1))
RDiv(a, b) == RMul(a, Norm(b[2], b[1]))
RLeq(a, b) == a[1] * b[2] <= b[1] * a[2]
RLt(a, b) == a[1] * b[2] < b[1] * a[2]
\* Python's max(a, b) and min(a, b): the first argument unless the second
\* is strictly larger (smaller).
RMax(a, b) == IF RLt(a, b) THEN b ELSE a
RMin(a, b) == IF RLt(b, a) THEN b ELSE a

-----------------------------------------------------------------------------
(* The change factors.                                                     *)

factor_unbalancedness_wrong_clamp(ub) ==
    LET c_max == Frac(1, 2)
        rescale == Frac(1, 2)
        c == RAdd(R(1), RMul(ub, rescale))
    IN  IF RLt(R(1), c)
        THEN RMin(c, RAdd(R(1), c_max))
        ELSE RMin(c, RSub(R(1), c_max))

factor_unbalancedness(ub) ==
    LET c_max == Frac(1, 2)
        rescale == Frac(1, 2)
        c == RAdd(R(1), RMul(ub, rescale))
    IN  IF RLt(R(1), c)
        THEN RMin(c, RAdd(R(1), c_max))
        ELSE RMax(c, RSub(R(1), c_max))

factor_flow(flow) ==
    LET c_max == Frac(1, 2)
        rescale == Frac(1, 2)
        c == RAdd(R(1), RMul(flow, rescale))
    IN  IF RLt(R(1), c)
        THEN RMin(c, RAdd(R(1), c_max))
        ELSE RMax(c, RSub(R(1), c_max))

\* What line 222 raises: AttributeError while set_fees_demand never set
\* self.time_interval_days, ZeroDivisionError when it is 0.
factor_demand_raises(tid) ==
    IF tid = <<>> THEN "AttributeError"
    ELSE IF tid[1] = 0 THEN "ZeroDivisionError"
    ELSE "none"

\* tid is self.time_interval_days; only evaluated when nothing is raised.
factor_demand(tid, amount_out, capacity) ==
    LET rate == RDiv(amount_out, R(tid[1]))
        c_min == Frac(1, 4)
        c_max == R(1)
        rate_target == Frac(100000, 7)
        c == RAdd(RMul(c_min, RSub(RDiv(rate, rate_target), R(1))), R(1))
    IN  RMin(c, RAdd(R(1), c_max))

-----------------------------------------------------------------------------
(* fee_rate_change: one pass of the loop body and the loop.                *)

channel_stats_values_nonzero_default(channels_forwarding_stats, channel_id) ==
    IF channel_id \notin DOMAIN channels_forwarding_stats
    THEN [flow |-> R(0), fees_sat |-> R(0),
          total_forwarding_in |-> R(0), total_forwarding_out |-> R(0),
          total_forwarding |-> R(1), number_forwardings |-> 0]
    ELSE LET channel_stats == channels_forwarding_stats[channel_id]
         IN  [flow |-> channel_stats.flow_direction,
              fees_sat |-> RDiv(R(channel_stats.fees_total), R(1000)),
              total_forwarding_in |-> R(channel_stats.total_forwarding_in),
              total_forwarding_out |-> R(channel_stats.total_forwarding_out),
              total_forwarding |-> R(channel_stats.total_forwarding_in
                                     + channel_stats.total_forwarding_out),
              number_forwardings |-> channel_stats.number_forwardings]

\* Lines 82-96: the statistics of one channel, all zero when it has no entry.
channel_stats_values(channels_forwarding_stats, channel_id) ==
    IF channel_id \notin DOMAIN channels_forwarding_stats
    THEN [flow |-> R(0), fees_sat |-> R(0),
          total_forwarding_in |-> R(0), total_forwarding_out |-> R(0),
          total_forwarding |-> R(0), number_forwardings |-> 0]
    ELSE LET channel_stats == channels_forwarding_stats[channel_id]
         IN  [flow |-> channel_stats.flow_direction,
              fees_sat |-> RDiv(R(channel_stats.fees_total), R(1000)),
              total_forwarding_in |-> R(channel_stats.total_forwarding_in),
              total_forwarding_out |-> R(channel_stats.total_forwarding_out),
              total_forwarding |-> R(channel_stats.total_forwarding_in
                                     + channel_stats.total_forwarding_out),
              number_forwardings |-> channel_stats.number_forwardings]

weighted_change_keeps_flow(f_demand, f_unbalancedness, f_flow, total_forwarding) ==
    LET wgt_demand == Frac(12, 10)
        wgt_ub == R(1)
        wgt_flow == Frac(6, 10)
    IN  RDiv(RAdd(RAdd(RMul(wgt_ub, f_unbalancedness), RMul(wgt_flow, f_flow)),
                  RMul(wgt_demand, f_demand)),
             RAdd(RAdd(wgt_ub, wgt_flow), wgt_demand))

\* Lines 114-130.
weighted_change(f_demand, f_unbalancedness, f_flow, total_forwarding) ==
    LET wgt_demand == Frac(12, 10)
        wgt_ub == R(1)
        wgt_flow == IF total_forwarding = R(0) THEN R(0) ELSE Frac(6, 10)
    IN  RDiv(RAdd(RAdd(RMul(wgt_ub, f_unbalancedness), RMul(wgt_flow, f_flow)),
                  RMul(wgt_demand, f_demand)),
             RAdd(RAdd(wgt_ub, wgt_flow), wgt_demand))

amplified_change_strict(fee_rate, w_change) ==
    IF RLt(fee_rate, Frac(2, 1000000))
    THEN RAdd(R(1), RMul(RSub(w_change, R(1)), R(3)))
    ELSE w_change

\* Lines 140-141.
amplified_change(fee_rate, w_change) ==
    IF RLeq(fee_rate, Frac(2, 1000000))
    THEN RAdd(R(1), RMul(RSub(w_change, R(1)), R(3)))
    ELSE w_change

new_fee_rate_no_floor(min_fee_rate, fee_rate, w_change) ==
    RMul(fee_rate, w_change)

\* Lines 143-144.
new_fee_rate(min_fee_rate, fee_rate, w_change) ==
    RMax(min_fee_rate, RMul(fee_rate, w_change))

\* What one pass of the loop body raises, in the order of the statements:
\* the lookup of line 101-103 comes before factor_demand in line 118.
channel_raises(cfp, tid, channel_data) ==
    IF channel_data.channel_point \notin DOMAIN cfp THEN "KeyError"
    ELSE factor_demand_raises(tid)

\* The record logged in lines 132-156 for one channel; it holds the new
\* fee rate of lines 143-144.
logged(channel_data, s, fee_rate, f_demand, f_unbalancedness, f_flow, w_change, w_final, min_fee_rate) ==
    [channel_id |-> channel_data.channel_id,
     channel_point |-> channel_data.channel_point,
     ub |-> channel_data.unbalancedness,
     flow |-> s.flow, fees_sat |-> s.fees_sat,
     total_forwarding_in |-> s.total_forwarding_in,
     total_forwarding_out |-> s.total_forwarding_out,
     total_forwarding |-> s.total_forwarding,
     factor_demand |-> f_demand,
     factor_unbalancedness |-> f_unbalancedness,
     factor_flow |-> f_flow,
     weighted_change_logged |-> w_change,
     weighted_change |-> w_final,
     fee_rate |-> fee_rate,
     fee_rate_new |-> new_fee_rate(min_fee_rate, fee_rate, w_final)]

\* One pass of the loop body that raises nothing (lines 82-156).
channel_pass(cfp, tid, channel_data, channels_forwarding_stats, min_fee_rate) ==
    LET s == channel_stats_values(channels_forwarding_stats, channel_data.channel_id)
        ub == channel_data.unbalancedness
        capacity == channel_data.capacity
        fee_rate == cfp[channel_data.channel_point].fee_rate
        f_demand == factor_demand(tid, s.total_forwarding_out, capacity)
        f_unbalancedness == factor_unbalancedness(ub)
        f_flow == factor_flow(s.flow)
        w_change == weighted_change(f_demand, f_unbalancedness, f_flow,
                                    s.total_forwarding)
        w_final == amplified_change(fee_rate, w_change)
    IN  logged(channel_data, s, fee_rate, f_demand, f_unbalancedness, f_flow,
               w_change, w_final, min_fee_rate)

EmptyMap == [x \in {} |-> x]

\* Lines 158-162: the policy of the channel enters the mapping under its
\* channel point.
with_policy(acc, p, base_fee_msat, cltv) ==
    [policies |-> (p.channel_point :>
                      [base_fee_msat |-> base_fee_msat,
                       fee_rate |-> p.fee_rate_new,
                       cltv |-> cltv]) @@ acc.policies,
     log |-> Append(acc.log, p)]

\* The loop of lines 81-162 from the i-th channel on; an exception ends it
\* and the mapping built so far is lost.
RECURSIVE fee_rate_loop(_, _, _, _, _, _, _, _, _)
fee_rate_loop(cfp, tid, channels, channels_forwarding_stats, base_fee_msat, cltv, min_fee_rate, i, acc) ==
    IF i > Len(channels)
    THEN [outcome |-> "return", policies |-> acc.policies, log |-> acc.log]
    ELSE IF channel_raises(cfp, tid, channels[i]) # "none"
    THEN [outcome |-> channel_raises(cfp, tid, channels[i]),
          policies |-> EmptyMap, log |-> acc.log]
    ELSE fee_rate_loop(cfp, tid, channels, channels_forwarding_stats,
                       base_fee_msat, cltv, min_fee_rate, i + 1,
                       with_policy(acc,
                                   channel_pass(cfp, tid, channels[i],
                                                channels_forwarding_stats,
                                                min_fee_rate),
                                   base_fee_msat, cltv))

\* FeeSetter.fee_rate_change on an object whose fields are cfp and tid.
\* channels is the dict of channels in its iteration order.
fee_rate_change(cfp, tid, channels, channels_forwarding_stats, base_fee_msat, cltv, min_fee_rate) ==
    fee_rate_loop(cfp, tid, channels, channels_forwarding_stats, base_fee_msat,
                  cltv, min_fee_rate, 1, [policies |-> EmptyMap, log |-> <<>>])

-----------------------------------------------------------------------------
(* Inputs.                                                                 *)

MaxWeeks == 2      \* from_days_ago ranges over -1, 0 and 7, 14, .. 7 * MaxWeeks
GridMax == 15      \* the change factors are probed at k / 10, |k| <= GridMax

ChannelIds == {1, 2}
channel_point_of(c) == IF c = 1 THEN "txid1:0" ELSE "txid2:1"
capacity_of(c) == 1000000 * c

ChannelData(c, ub) ==
    [channel_id |-> c, channel_point |-> channel_point_of(c),
     capacity |-> capacity_of(c), unbalancedness |-> ub]

Policy(base_fee_msat, fee_rate, cltv) ==
    [base_fee_msat |-> base_fee_msat, fee_rate |-> fee_rate, cltv |-> cltv]

Stats(flow, fees, amt_in, amt_out, n) ==
    [flow_direction |-> flow, fees_total |-> fees, total_forwarding_in |-> amt_in,
     total_forwarding_out |-> amt_out, number_forwardings |-> n]

ZeroStats == Stats(R(0), 0, 0, 0, 0)

Days == {-1, 0} \cup {7 * k : k \in 1..MaxWeeks}

\* all orders in which a dict can hold the keys S
Orders(S) ==
    {o \in [1..Cardinality(S) -> S] : \A i, j \in DOMAIN o : i # j => o[i] # o[j]}

\* the keys S in the order the channels were opened
RECURSIVE Ascending(_)
Ascending(S) ==
    IF S = {} THEN <<>>
    ELSE LET m == CHOOSE x \in S : \A y \in S : y <= x
         IN  Append(Ascending(S \ {m}), m)

\* the dicts of channels with the keys in one of the orders os, the
\* unbalancedness of channel c drawn from ubs[c]
ChannelDicts(os, ubs) ==
    UNION {{[i \in DOMAIN o |-> ChannelData(o[i], u[i])] :
               u \in {v \in [DOMAIN o -> UNION {ubs[c] : c \in ChannelIds}] :
                         \A i \in DOMAIN o : v[i] \in ubs[o[i]]}} :
           o \in os}

\* the dicts of forwarding statistics of some of the channels S, the
\* statistics of channel c drawn from stats[c]
StatsDicts(S, stats) ==
    UNION {{f \in [D -> UNION {stats[c] : c \in ChannelIds}] :
               \A c \in D : f[c] \in stats[c]} :
           D \in SUBSET S}

ActiveStats == Stats(Frac(1, 5), 2000, 0, 140000, 3)

\* what the node is asked for in set_fees_demand
NodeUb == (1 :> {R(0)}) @@ (2 :> {R(0)})
NodeStats == (1 :> {ActiveStats}) @@ (2 :> {})
NodeMinFeeRates == {Frac(4, 1000000), R(0)}
InitialFeeRates == {Frac(1, 10000)}

\* what fee_rate_change is called with on its own
CallUb == (1 :> {Frac(-6, 5), R(-1), Frac(-4, 5), R(0), Frac(1, 5), R(1)})
              @@ (2 :> {R(0)})
CallStats == (1 :> {ZeroStats, ActiveStats,
                    Stats(R(-1), 500, 50000, 0, 1),
                    Stats(Frac(1, 2), 0, 0, 0, 0)})
              @@ (2 :> {ActiveStats})
CallMinFeeRates == {Frac(4, 1000000), R(0), Frac(-1, 1000000)}
CallFeeRates == {Frac(1, 10000), Frac(2, 1000000), Frac(15, 10000000),
                 Frac(21, 10000000)}

-----------------------------------------------------------------------------
(* The FeeSetter object and the node.                                      *)

NoCall == [op |-> "none"]

\* __init__: the fee policies are read from the node once.
Init ==
    /\ node_channels = {1}
    /\ node_policies \in
         {[cp \in {channel_point_of(c) : c \in node_channels} |-> Policy(1000, f, 40)] :
          f \in InitialFeeRates}
    /\ channel_fee_policies = node_policies
    /\ time_interval_days = <<>>
    /\ pc = "idle"
    /\ call = NoCall
    /\ memo = NoCall
    /\ probe = <<>>

\* node.set_channel_fee_policies: the node takes the policy of every
\* channel point of the mapping.
set_channel_fee_policies(policies) ==
    node_policies' = policies @@ node_policies

\* the last direct fee_rate_change call before the one that starts
Remember == IF call.op = "fee_rate_change" THEN call ELSE memo

\* set_fees_demand up to its return or to the question of line 55.
set_fees_demand(cltv, base_fee_msat, from_days_ago, min_fee_rate, reckless, channels, channels_forwarding_stats) ==
    /\ pc = "idle"
    /\ time_interval_days' = <<from_days_ago>>
    /\ \E res \in {fee_rate_change(channel_fee_policies, <<from_days_ago>>,
                                   channels, channels_forwarding_stats,
                                   base_fee_msat, cltv, min_fee_rate)} :
       LET c == [op |-> "set_fees_demand", channels |-> channels,
                 stats |-> channels_forwarding_stats,
                 base_fee_msat |-> base_fee_msat, cltv |-> cltv,
                 min_fee_rate |-> min_fee_rate, from_days_ago |-> from_days_ago,
                 reckless |-> reckless, outcome |-> res.outcome,
                 policies |-> res.policies, log |-> res.log,
                 asked |-> FALSE, answer |-> "none", pushes |-> 0,
                 node_before |-> node_policies]
       IN  IF res.outcome # "return"
           THEN /\ call' = c
                /\ pc' = "idle"
                /\ UNCHANGED node_policies
           ELSE IF reckless
           THEN /\ set_channel_fee_policies(res.policies)
                /\ call' = [c EXCEPT !.pushes = 1]
                /\ pc' = "idle"
           ELSE /\ call' = [c EXCEPT !.asked = TRUE, !.outcome = "asking"]
                /\ pc' = "confirm"
                /\ UNCHANGED node_policies
    /\ memo' = Remember
    /\ UNCHANGED <<node_channels, channel_fee_policies, probe>>

\* yes_no_question() returns and set_fees_demand runs to its end.
yes_no_question(yes) ==
    /\ pc = "confirm"
    /\ IF yes
       THEN /\ set_channel_fee_policies(call.policies)
            /\ call' = [call EXCEPT !.answer = "yes", !.outcome = "return",
                                    !.pushes = @ + 1]
       ELSE /\ call' = [call EXCEPT !.answer = "no", !.outcome = "return"]
            /\ UNCHANGED node_policies
    /\ pc' = "idle"
    /\ UNCHANGED <<node_channels, channel_fee_policies, time_interval_days,
                   memo, probe>>

\* a caller invokes fee_rate_change itself
fee_rate_change_call(channels, channels_forwarding_stats, base_fee_msat, cltv, min_fee_rate) ==
    /\ pc = "idle"
    /\ \E res \in {fee_rate_change(channel_fee_policies, time_interval_days,
                                   channels, channels_forwarding_stats,
                                   base_fee_msat, cltv, min_fee_rate)} :
           call' = [op |-> "fee_rate_change", channels |-> channels,
                    stats |-> channels_forwarding_stats,
                    base_fee_msat |-> base_fee_msat, cltv |-> cltv,
                    min_fee_rate |-> min_fee_rate, outcome |-> res.outcome,
                    policies |-> res.policies, log |-> res.log]
    /\ memo' = Remember
    /\ UNCHANGED <<node_channels, node_policies, channel_fee_policies,
                   time_interval_days, pc, probe>>

\* a channel is opened at the node after the FeeSetter was constructed
OpenChannel(c) ==
    /\ c \notin node_channels
    /\ node_channels' = node_channels \cup {c}
    /\ node_policies' = (channel_point_of(c) :> Policy(1000, Frac(1, 1000000), 40))
                            @@ node_policies
    /\ UNCHANGED <<channel_fee_policies, time_interval_days, pc, call, memo, probe>>

SetFeesDemand ==
    \E from_days_ago \in Days, min_fee_rate \in NodeMinFeeRates, reckless \in BOOLEAN,
       channels \in ChannelDicts({Ascending(node_channels)}, NodeUb),
       stats \in StatsDicts(node_channels, NodeStats) :
        set_fees_demand(20, 40, from_days_ago, min_fee_rate, reckless, channels, stats)

Answer == \E yes \in BOOLEAN : yes_no_question(yes)

\* direct calls with the channels and statistics of the node
FeeRateChange ==
    \E channels \in ChannelDicts({Ascending(node_channels)}, NodeUb),
       stats \in StatsDicts(node_channels, NodeStats) :
        fee_rate_change_call(channels, stats, 40, 20, Frac(4, 1000000))

Open == \E c \in ChannelIds : OpenChannel(c)

Next == SetFeesDemand \/ Answer \/ FeeRateChange \/ Open

Spec == Init /\ [][Next]_vars

-----------------------------------------------------------------------------
(* fee_rate_change on its own: the FeeSetter is in any state its           *)
(* constructor and set_fees_demand can leave it in, and one call is made   *)
(* with arguments of the caller's choice.                                  *)

InitChange ==
    /\ node_channels \in {{1}, {1, 2}}
    /\ node_policies \in
         {[cp \in {channel_point_of(c) : c \in node_channels} |->
              IF cp = channel_point_of(1) THEN Policy(1000, f, 40)
              ELSE Policy(1000, Frac(1, 10000), 40)] :
          f \in CallFeeRates}
    /\ channel_fee_policies = node_policies
    /\ time_interval_days \in {<<>>} \cup {<<d>> : d \in Days}
    /\ pc = "idle"
    /\ call = NoCall
    /\ memo = NoCall
    /\ probe = <<>>

FeeRateChangeOnce ==
    /\ call = NoCall
    /\ \E channels \in ChannelDicts(UNION {Orders(S) : S \in SUBSET ChannelIds}, CallUb),
          stats \in StatsDicts(ChannelIds, CallStats),
          min_fee_rate \in CallMinFeeRates :
           fee_rate_change_call(channels, stats, 40, 20, min_fee_rate)

NextChange == FeeRateChangeOnce

SpecChange == InitChange /\ [][NextChange]_vars

-----------------------------------------------------------------------------
(* The change factors on their own, probed on a grid of arguments.         *)

Grid == {Frac(k, 10) : k \in (-GridMax)..GridMax}

InitFactors ==
    /\ node_channels = {1}
    /\ node_policies = [cp \in {channel_point_of(1)} |-> Policy(1000, Frac(1, 10000), 40)]
    /\ channel_fee_policies = node_policies
    /\ time_interval_days = <<>>
    /\ pc = "idle"
    /\ call = NoCall
    /\ memo = NoCall
    /\ probe = <<>>

\* both factors are evaluated at x; the evaluation before it is kept
EvaluateFactors(x) ==
    /\ probe' = (IF probe = <<>> THEN <<>> ELSE <<probe[Len(probe)]>>)
                    \o <<[arg |-> x,
                          factor_unbalancedness |-> factor_unbalancedness(x),
                          factor_flow |-> factor_flow(x)]>>
    /\ UNCHANGED <<node_channels, node_policies, channel_fee_policies,
                   time_interval_days, pc, call, memo>>

NextFactors == \E x \in Grid : EvaluateFactors(x)

SpecFactors == InitFactors /\ [][NextFactors]_vars

-----------------------------------------------------------------------------
(* Properties.                                                             *)

InRange(x) == RLeq(R(-1), x) /\ RLeq(x, R(1))
Called == call.op # "none"
Returned == Called /\ call.outcome = "return"
Idle(rec) == rec.total_forwarding = R(0)
SmallFee(rec) == RLeq(rec.fee_rate, Frac(2, 1000000))

\* C1: every policy fee_rate_change returns has a fee rate of at least
\* min_fee_rate, whatever the inputs and also when the amplified change
\* multiplier is zero or negative.
C1_FloorHolds ==
    Called => \A cp \in DOMAIN call.policies :
                  RLeq(call.min_fee_rate, call.policies[cp].fee_rate)

\* a call returned a policy for a channel whose amplified multiplier is
\* negative, and the floor decided the new fee rate
C1_Witness ==
    /\ Returned
    /\ \E i \in DOMAIN call.log :
          /\ RLt(call.log[i].weighted_change, R(0))
          /\ call.policies[call.log[i].channel_point].fee_rate = call.min_fee_rate

\* C2: the fee rate an invocation of set_fees_demand multiplies for a
\* channel is the fee rate the node holds for that channel when the
\* invocation starts.
C2_BaselineIsNodeRate ==
    call.op = "set_fees_demand" =>
        \A i \in DOMAIN call.log :
            call.log[i].fee_rate
                = call.node_before[call.log[i].channel_point].fee_rate

SameArguments(a, b) ==
    /\ a.channels = b.channels
    /\ a.stats = b.stats
    /\ a.base_fee_msat = b.base_fee_msat
    /\ a.cltv = b.cltv
    /\ a.min_fee_rate = b.min_fee_rate

\* C3: two calls of fee_rate_change on the same FeeSetter with identical
\* arguments end the same way and return identical mappings, whatever ran
\* between them.
C3_SameArgumentsSameResult ==
    (call.op = "fee_rate_change" /\ memo.op = "fee_rate_change"
        /\ SameArguments(call, memo))
    => (call.outcome = memo.outcome /\ call.policies = memo.policies)

\* C4 as claimed: for an idle channel with a fee rate above 2e-6 the weighted
\* change is factor_unbalancedness(ub) alone, so ub = 0 leaves the fee rate
\* as it is and ub = -0.8 multiplies it by 0.6.
C4_IdleChangeIsUnbalancednessFactor ==
    Called => \A i \in DOMAIN call.log :
        LET rec == call.log[i] IN
        (Idle(rec) /\ ~SmallFee(rec)) =>
            /\ rec.weighted_change_logged = rec.factor_unbalancedness
            /\ rec.ub = R(0) => rec.fee_rate_new = RMax(call.min_fee_rate, rec.fee_rate)
            /\ rec.ub = Frac(-4, 5) =>
                   rec.fee_rate_new
                       = RMax(call.min_fee_rate, RMul(rec.fee_rate, Frac(6, 10)))

\* C4 as amended: for an idle channel with a fee rate above 2e-6 the weighted
\* change is (factor_unbalancedness(ub) + 1.2 * 0.75) / 2.2, the demand factor
\* of an idle channel being 0.75 with weight 1.2: 19/22 for ub = 0 and 15/22
\* for ub = -0.8; it is not amplified and the new fee rate is
\* max(min_fee_rate, fee rate * weighted change), so that 0.000100 becomes
\* 19/220000 and 15/220000 with min_fee_rate 0.000004.
C4_IdleChangeBlendsDemand ==
    Called => \A i \in DOMAIN call.log :
        LET rec == call.log[i] IN
        (Idle(rec) /\ ~SmallFee(rec)) =>
            /\ rec.factor_demand = Frac(3, 4)
            /\ rec.weighted_change_logged
                   = RDiv(RAdd(rec.factor_unbalancedness, Frac(9, 10)), Frac(22, 10))
            /\ rec.weighted_change = rec.weighted_change_logged
            /\ rec.fee_rate_new
                   = RMax(call.min_fee_rate, RMul(rec.fee_rate, rec.weighted_change_logged))
            /\ rec.ub = R(0) => rec.weighted_change_logged = Frac(19, 22)
            /\ rec.ub = Frac(-4, 5) => rec.weighted_change_logged = Frac(15, 22)
            /\ (rec.fee_rate = Frac(1, 10000) /\ call.min_fee_rate = Frac(4, 1000000)) =>
                   /\ rec.ub = R(0) => rec.fee_rate_new = Frac(19, 220000)
                   /\ rec.ub = Frac(-4, 5) => rec.fee_rate_new = Frac(15, 220000)

\* one call priced an idle channel with ub = -0.8 and one with ub = 0, both at
\* 0.000100 with min_fee_rate 0.000004
C4_Witness ==
    /\ Returned
    /\ call.min_fee_rate = Frac(4, 1000000)
    /\ \E i, j \in DOMAIN call.log :
          /\ Idle(call.log[i]) /\ call.log[i].fee_rate = Frac(1, 10000)
          /\ call.log[i].ub = Frac(-4, 5)
          /\ Idle(call.log[j]) /\ call.log[j].fee_rate = Frac(1, 10000)
          /\ call.log[j].ub = R(0)

\* the node holds a given policy for every channel point of a mapping
NodeHolds(policies) ==
    \A cp \in DOMAIN policies : node_policies[cp] = policies[cp]

\* C5: set_fees_demand with from_days_ago <= 0 or min_fee_rate <= 0 ends in a
\* configuration error before any policy is computed and pushes nothing.
C5_BadConfigurationRejected ==
    (call.op = "set_fees_demand"
        /\ (call.from_days_ago <= 0 \/ RLeq(call.min_fee_rate, R(0))))
    => /\ call.outcome = "ConfigurationError"
       /\ call.log = <<>>
       /\ call.pushes = 0
       /\ NodeHolds(call.node_before)

HasPolicy(channel_data) == channel_data.channel_point \in DOMAIN channel_fee_policies

\* C6: when one channel of the batch has no current fee policy, the call
\* still returns, for every other channel, the policy it returns for the
\* batch without that channel.
C6_OtherChannelsStillPriced ==
    (Called /\ factor_demand_raises(time_interval_days) = "none"
        /\ \E i \in DOMAIN call.channels : ~HasPolicy(call.channels[i]))
    => \A i \in DOMAIN call.channels :
          HasPolicy(call.channels[i]) =>
              LET cp == call.channels[i].channel_point
                  rest == fee_rate_change(channel_fee_policies, time_interval_days,
                                          SelectSeq(call.channels, HasPolicy),
                                          call.stats, call.base_fee_msat, call.cltv,
                                          call.min_fee_rate)
              IN  /\ cp \in DOMAIN call.policies
                  /\ call.policies[cp] = rest.policies[cp]

\* C7: a finished set_fees_demand has pushed its policies at most once, and
\* exactly when reckless is set or the user answered yes; with reckless the
\* user is not asked, and after a no the node's policies are as before.
C7_PushedExactlyWhenConfirmed ==
    (call.op = "set_fees_demand" /\ pc = "idle")
    => /\ call.pushes <= 1
       /\ call.pushes = 1 <=> (call.reckless \/ call.answer = "yes")
       /\ call.reckless => ~call.asked
       /\ call.answer = "no" => NodeHolds(call.node_before)
       /\ call.pushes = 1 =>
              /\ \A i \in DOMAIN call.channels :
                    call.channels[i].channel_point \in DOMAIN call.policies
              /\ NodeHolds(call.policies @@ call.node_before)

\* the part of C7 the code keeps: the same, for the invocations in which
\* fee_rate_change returned
C7_WhenPoliciesComputed ==
    (call.op = "set_fees_demand" /\ pc = "idle" /\ call.outcome = "return")
    => /\ call.pushes <= 1
       /\ call.pushes = 1 <=> (call.reckless \/ call.answer = "yes")
       /\ call.reckless => ~call.asked
       /\ call.answer = "no" => NodeHolds(call.node_before)
       /\ call.pushes = 1 =>
              /\ \A i \in DOMAIN call.channels :
                    call.channels[i].channel_point \in DOMAIN call.policies
              /\ NodeHolds(call.policies @@ call.node_before)

NoStatsIds == {call.channels[i].channel_id : i \in DOMAIN call.channels}
                  \ DOMAIN call.stats

\* C8: a call in which channels have no entry in the forwarding statistics
\* ends as, and returns what, the call does in which each of them has the
\* entry flow_direction 0, fees 0, forwarded in 0 and out 0, 0 forwardings; a
\* call that raises nothing with the entries raises nothing without them.
C8_AbsentStatsAreZeroStats ==
    (Called /\ call.op = "fee_rate_change") =>
        LET filled == fee_rate_change(channel_fee_policies, time_interval_days,
                                      call.channels,
                                      [c \in NoStatsIds |-> ZeroStats] @@ call.stats,
                                      call.base_fee_msat, call.cltv,
                                      call.min_fee_rate)
        IN  /\ call.outcome = filled.outcome
            /\ call.policies = filled.policies

\* a call returned policies for a batch with a channel without statistics
C8_Witness ==
    /\ Returned
    /\ NoStatsIds # {}
    /\ DOMAIN call.stats # {}
    /\ DOMAIN call.policies # {}

\* C9: on [-1, 1] factor_unbalancedness and factor_flow lie in [0.5, 1.5],
\* do not decrease when the argument grows and are 1 at 0; at every argument
\* the two return the same value.
C9_FactorsBoundedMonotonicEqual ==
    /\ \A i \in DOMAIN probe :
          probe[i].factor_flow = probe[i].factor_unbalancedness
    /\ \A i \in DOMAIN probe :
          InRange(probe[i].arg) =>
              /\ RLeq(Frac(1, 2), probe[i].factor_unbalancedness)
              /\ RLeq(probe[i].factor_unbalancedness, Frac(3, 2))
              /\ RLeq(Frac(1, 2), probe[i].factor_flow)
              /\ RLeq(probe[i].factor_flow, Frac(3, 2))
              /\ probe[i].arg = R(0) =>
                     (probe[i].factor_unbalancedness = R(1) /\ probe[i].factor_flow = R(1))
    /\ \A i, j \in DOMAIN probe :
          (InRange(probe[i].arg) /\ InRange(probe[j].arg)
              /\ RLeq(probe[i].arg, probe[j].arg))
          => /\ RLeq(probe[i].factor_unbalancedness, probe[j].factor_unbalancedness)
             /\ RLeq(probe[i].factor_flow, probe[j].factor_flow)

\* the factors were evaluated at 0 and then at a smaller argument of the range
C9_Witness ==
    /\ Len(probe) = 2
    /\ probe[1].arg = R(0)
    /\ probe[2].arg = Frac(-4, 5)
    /\ probe[2].factor_unbalancedness = Frac(6, 10)

\* C10: the deviation of the weighted change from 1 is tripled exactly when
\* the current fee rate is <= 2e-6, and the new fee rate is
\* max(min_fee_rate, fee rate * weighted change); 0.0000015 with weighted
\* change 1.1 is multiplied by 1.3.
C10_AmplifiedExactlyForSmallFees ==
    Called => \A i \in DOMAIN call.log :
        LET rec == call.log[i] IN
        /\ SmallFee(rec) =>
               rec.weighted_change
                   = RAdd(R(1), RMul(RSub(rec.weighted_change_logged, R(1)), R(3)))
        /\ ~SmallFee(rec) => rec.weighted_change = rec.weighted_change_logged
        /\ rec.fee_rate_new
               = RMax(call.min_fee_rate, RMul(rec.fee_rate, rec.weighted_change))
        /\ Returned => call.policies[rec.channel_point].fee_rate = rec.fee_rate_new
        /\ (rec.fee_rate = Frac(15, 10000000) /\ rec.weighted_change_logged = Frac(11, 10))
               => /\ rec.weighted_change = Frac(13, 10)
                  /\ rec.fee_rate_new = RMax(call.min_fee_rate, Frac(195, 100000000))

\* a call priced a channel at 0.0000015 with weighted change 1.1 and the new
\* fee rate 0.00000195 was raised to min_fee_rate
C10_Witness ==
    /\ Returned
    /\ call.min_fee_rate = Frac(4, 1000000)
    /\ \E i \in DOMAIN call.log :
          /\ call.log[i].fee_rate = Frac(15, 10000000)
          /\ call.log[i].weighted_change_logged = Frac(11, 10)
          /\ call.log[i].fee_rate_new = call.min_fee_rate

====
